---- MODULE Spec2Model ----
(***************************************************************************)
(* A model of app.py: the spreadsheet upload boundary, the notification    *)
(* dispatcher (send_messages), the LINE webhook with its message router    *)
(* (process_user_message) and the three SQLite tables behind them.         *)
(*                                                                         *)
(* Text is a sequence of characters.  A character is a one-element string  *)
(* for ASCII and a romanised token for a Japanese character ("kj:" kanji,  *)
(* "hi:" hiragana, "ka:" katakana), so that strip(), lower(), the          *)
(* substring tests and the name regex are computed character by character. *)
(* A reply is the text of its template: a token naming the fixed part      *)
(* followed by the interpolated characters.                                *)
(***************************************************************************)
EXTENDS Integers, Sequences, FiniteSets, TLC

VARIABLES
    users,                \* table users: rows [line_user_id, employee_name]
    conversations,        \* table conversations: rows [id, user_id, role, message, timestamp]
    shift_confirmations,  \* table shift_confirmations
    convSeq,              \* AUTOINCREMENT counter of conversations
    confSeq,              \* AUTOINCREMENT counter of shift_confirmations
    now,                  \* the wall clock, in ticks
    lineToken,            \* LINE_CHANNEL_ACCESS_TOKEN is configured
    managerId,            \* MANAGER_LINE_ID, or None
    out,                  \* what the last request returned and pushed
    handlers              \* the deliveries handled concurrently, step by step

vars == <<users, conversations, shift_confirmations, convSeq, confSeq,
          now, lineToken, managerId, out, handlers>>

None == "None"

----------------------------------------------------------------------------
(* Bounds of the model.                                                    *)

MaxMsgs == 2        \* text messages routed in one behaviour
MaxWeekMsgs == 3    \* text messages routed in one behaviour of SpecWeek
MaxClock == 1       \* ticks of the clock
TicksPerWeek == 1   \* ticks in one calendar week
MaxRows == 2        \* rows in one send_messages request
MaxLogRows == 23    \* rows stored in one behaviour of SpecLog
MaxOtherRows == 1   \* of which rows of a second user id

----------------------------------------------------------------------------
(* Characters.                                                             *)

LowerSeq == <<"a","b","c","d","e","f","g","h","i","j","k","l","m",
              "n","o","p","q","r","s","t","u","v","w","x","y","z">>
UpperSeq == <<"A","B","C","D","E","F","G","H","I","J","K","L","M",
              "N","O","P","Q","R","S","T","U","V","W","X","Y","Z">>
SeqRange(s) == {s[i] : i \in 1..Len(s)}
LatinLower == SeqRange(LowerSeq)
LatinUpper == SeqRange(UpperSeq)
Hiragana == {"hi:i", "hi:tsu", "hi:to", "hi:u", "hi:ro", "hi:ku", "hi:mi",
             "hi:wa", "hi:xtsu", "hi:te", "hi:re", "hi:e", "hi:ha", "hi:no",
             "hi:ka", "hi:ra", "hi:shi", "hi:ma", "hi:ta", "hi:ri"}
Katakana == {"ka:shi", "ka:fu", "ka:to"}
Kanji == {"kj:tou", "kj:roku", "kj:ta", "kj:rou", "kj:hen", "kj:kou",
          "kj:shuu", "kj:sei", "kj:yasu", "kj:dai", "kj:gyou", "kj:nyuu",
          "kj:tai", "kj:kon", "kj:shuukan", "kj:rai", "kj:nichi", "kj:mei",
          "kj:kin", "kj:mu", "kj:shutsu", "kj:nani", "kj:ji", "kj:kaku",
          "kj:nin", "kj:ryou", "kj:kai", "kj:shou", "kj:chi"}
Whitespace == {" "}

\* str.lower() of one character
LowerChar(c) ==
    IF c \in LatinUpper
    THEN LowerSeq[CHOOSE i \in 1..Len(UpperSeq) : UpperSeq[i] = c]
    ELSE c

\* str.lower()
Lower(s) == [i \in 1..Len(s) |-> LowerChar(s[i])]

\* str.strip()
Strip(s) ==
    LET keep == {i \in 1..Len(s) : s[i] \notin Whitespace}
    IN  IF keep = {} THEN <<>>
        ELSE LET lo == CHOOSE i \in keep : \A j \in keep : i <= j
                 hi == CHOOSE i \in keep : \A j \in keep : i >= j
             IN  SubSeq(s, lo, hi)

IsSpaceless(c) == c \notin Whitespace

\* re.sub(r'\s+', '', s)
RemoveWhitespace(s) == SelectSeq(s, IsSpaceless)

\* keyword in text
Contains(text, keyword) ==
    \E i \in 0..(Len(text) - Len(keyword)) :
        SubSeq(text, i + 1, i + Len(keyword)) = keyword

\* any(keyword in text.lower() for keyword in keywords)
ContainsAny(text, keywords) ==
    \E k \in 1..Len(keywords) : Contains(Lower(text), keywords[k])

----------------------------------------------------------------------------
(* Keyword lists.                                                          *)

KwTouroku == <<"kj:tou", "kj:roku">>
KwRegister == <<"r","e","g","i","s","t","e","r">>
KwTourokuKana == <<"hi:to", "hi:u", "hi:ro", "hi:ku">>
KwHenkou == <<"kj:hen", "kj:kou">>
KwShuusei == <<"kj:shuu", "kj:sei">>
KwUpdate == <<"u","p","d","a","t","e">>
KwChange == <<"c","h","a","n","g","e">>
KwShift == <<"ka:shi", "ka:fu", "ka:to">>
KwShiftedNo == <<"hi:no">> \o KwShift

registration_keywords == <<KwTouroku, KwRegister, KwTourokuKana>>

change_keywords ==
    << KwHenkou, KwShuusei, KwUpdate, KwChange, KwShift \o KwHenkou,
       <<"kj:yasu", "hi:mi">>,
       <<"kj:dai", "hi:wa", "hi:xtsu", "hi:te">>,
       <<"kj:dai", "kj:gyou">>,
       <<"kj:nyuu", "hi:re", "kj:tai", "hi:e">> >>

inquiry_keywords ==
    << KwShift \o <<"hi:ha">>,
       <<"kj:kon", "kj:shuukan">> \o KwShiftedNo,
       <<"kj:rai", "kj:shuukan">> \o KwShiftedNo,
       <<"kj:kon", "kj:nichi">> \o KwShiftedNo,
       <<"kj:mei", "kj:nichi">> \o KwShiftedNo,
       <<"s","h","i","f","t">>,
       <<"s","c","h","e","d","u","l","e">>,
       <<"kj:kin", "kj:mu">>,
       <<"kj:shutsu", "kj:kin">>,
       <<"kj:nani", "kj:ji", "hi:ka", "hi:ra">>,
       <<"hi:i", "hi:tsu">> >>

KwShimashita == <<"hi:shi", "hi:ma", "hi:shi", "hi:ta">>

confirmation_keywords ==
    << <<"kj:kaku", "kj:nin">>,
       <<"kj:kaku", "kj:nin">> \o KwShimashita,
       <<"kj:ryou", "kj:kai">>,
       <<"hi:wa", "hi:ka", "hi:ri", "hi:ma", "hi:shi", "hi:ta">>,
       <<"kj:shou", "kj:chi">> \o KwShimashita,
       <<"c","o","n","f","i","r","m">>,
       <<"a","c","k","n","o","w","l","e","d","g","e","d">>,
       <<"u","n","d","e","r","s","t","o","o","d">>,
       <<"r","o","g","e","r">>,
       <<"o","k">> >>

is_schedule_change_request(message) == ContainsAny(message, change_keywords)
is_shift_inquiry(message) == ContainsAny(message, inquiry_keywords)
is_shift_confirmation(message) == ContainsAny(message, confirmation_keywords)

\* a keyword list that holds 'register' only
IsRegistrationKeyword_latin(message) == Lower(message) = KwRegister

\* user_message.lower() in [touroku, 'register', touroku in hiragana]
IsRegistrationKeyword(message) ==
    \E k \in 1..Len(registration_keywords) : Lower(message) = registration_keywords[k]

----------------------------------------------------------------------------
(* validate_and_format_name.                                               *)

NAME_MAX == 20
NAME_MIN == 2

\* the character class of the name regex: Latin letters, hiragana,
\* katakana, kanji and whitespace
NameCharOk(c) ==
    c \in LatinLower \cup LatinUpper \cup Hiragana \cup Katakana \cup Kanji \cup Whitespace

ErrTooShort == <<"[name too short]">>
ErrBadChars == <<"[letters and spaces only]">>
ErrTooLong == <<"[name too long]">>

\* a validation that keeps the inner whitespace of the name
validate_and_format_name_spaced(name) ==
    LET stripped == Strip(name)
    IN  IF Len(stripped) < NAME_MIN
        THEN [name |-> <<>>, error |-> ErrTooShort]
        ELSE IF \E i \in 1..Len(stripped) : ~NameCharOk(stripped[i])
        THEN [name |-> <<>>, error |-> ErrBadChars]
        ELSE IF Len(stripped) > NAME_MAX
        THEN [name |-> <<>>, error |-> ErrTooLong]
        ELSE [name |-> stripped, error |-> <<>>]

validate_and_format_name(name) ==
    LET stripped == Strip(name)
        formatted_name == RemoveWhitespace(stripped)
    IN  IF Len(stripped) < NAME_MIN
        THEN [name |-> <<>>, error |-> ErrTooShort]
        ELSE IF \E i \in 1..Len(stripped) : ~NameCharOk(stripped[i])
        THEN [name |-> <<>>, error |-> ErrBadChars]
        ELSE IF Len(formatted_name) > NAME_MAX
        THEN [name |-> <<>>, error |-> ErrTooLong]
        ELSE [name |-> formatted_name, error |-> <<>>]

----------------------------------------------------------------------------
(* The database.                                                           *)

KeepLimit == 20

DB == [users |-> users, conversations |-> conversations,
       shift_confirmations |-> shift_confirmations,
       convSeq |-> convSeq, confSeq |-> confSeq]

\* SELECT id ... ORDER BY timestamp DESC LIMIT limit: the sets of rows the query
\* may return.  The order among rows of equal timestamp is not determined by
\* the query, so every choice among them is a possible result.
RECURSIVE TopByTimestamp(_, _)
TopByTimestamp(rows, limit) ==
    IF Cardinality(rows) <= limit THEN {rows}
    ELSE LET oldest == {r \in rows : \A q \in rows : r.timestamp <= q.timestamp}
         IN  UNION {TopByTimestamp(rows \ {r}, limit) : r \in oldest}

\* store_conversation: the databases it may leave.  Every exception is
\* swallowed, so a database that is down, or locked by another connection for
\* longer than the connection waits, is left as it is.
store_conversation(db, user_id, role, message, dbst) ==
    IF dbst # "ok" THEN {db}
    ELSE LET row == [id |-> db.convSeq + 1, user_id |-> user_id, role |-> role,
                     message |-> message, timestamp |-> now]
             inserted == db.conversations \cup {row}
             mine == {r \in inserted : r.user_id = user_id}
         IN  {[db EXCEPT !.conversations = (inserted \ mine) \cup kept,
                         !.convSeq = db.convSeq + 1] :
                  kept \in TopByTimestamp(mine, KeepLimit)}

\* Monday of the week of "now"
WeekStart(t) == t - (t % TicksPerWeek)

----------------------------------------------------------------------------
(* The gateway.                                                            *)

\* send_line_message: the call and what it returned.  gw: the gateway accepts
\* the request.
send_line_message(line_user_id, message_body, gw) ==
    [to |-> line_user_id, body |-> message_body,
     result |-> IF ~lineToken THEN "no_token"
                ELSE IF gw THEN "sent" ELSE "failed"]

\* a dispatcher that does not look at what the send returned
SendSucceeded_ignored(push) == TRUE

SendSucceeded(push) == push.result = "sent"

----------------------------------------------------------------------------
(* Replies of the router.                                                  *)

ReplyChangeAccepted(user_name, user_message) ==
    <<"[change request accepted]">> \o user_name \o <<"|">> \o user_message
ReplyAlreadyConfirmed == <<"[already confirmed this week]">>
ReplyConfirmed(user_name) == user_name \o <<"[confirmation recorded]">>
ReplyConfirmError == <<"[error while recording the confirmation]">>
ReplyInstructions == <<"[registration instructions]">>
ReplyRegistered(formatted_name) == <<"[registration complete]">> \o formatted_name
ReplyNameTaken(user_message) == <<"[name already used]">> \o user_message
ReplyInvalidName(error_msg) == <<"[invalid name]">> \o error_msg
ReplyPleaseRegister == <<"[please register first]">>
ReplyApology == <<"[an error occurred, try again later]">>
ReplyAI == <<"[generated text]">>
FallbackRegister == <<"[type touroku to register]">>
FallbackChange == <<"[contact the manager for changes]">>
FallbackHello == <<"[hello, how can I help]">>

get_shift_response(user_name) == user_name \o <<"[no shift data registered]">>

get_fallback_response(user_message) ==
    IF Contains(Lower(user_message), KwTouroku) THEN FallbackRegister
    ELSE IF ContainsAny(user_message, <<KwHenkou, KwShuusei, KwUpdate, KwChange>>)
    THEN FallbackChange
    ELSE FallbackHello

\* generate_ai_response: ai = "ok" when the library, the key and the call all
\* work; anything else falls back.
generate_ai_response(user_message, ai) ==
    IF ai = "ok" THEN ReplyAI ELSE get_fallback_response(user_message)

ManagerChangeNotice(user_id, user_name, change_request) ==
    <<"[shift change request]">> \o user_name \o <<"|", user_id, "|">> \o change_request

\* a change notice that is never sent
notify_manager_schedule_change_silent(user_id, user_name, change_request, gw) == <<>>

\* notify_manager_schedule_change: the pushes it makes
notify_manager_schedule_change(user_id, user_name, change_request, gw) ==
    IF managerId = None THEN <<>>
    ELSE <<send_line_message(managerId,
                             ManagerChangeNotice(user_id, user_name, change_request), gw)>>

\* a confirmation notice that raises with or without a manager id
notify_manager_confirmation_raises(user_id, user_name, week_start) == "raised"

\* notify_manager_confirmation: "returned" without a manager id; with one, the
\* message is formatted with datetime.now(), a name the module never imports,
\* and the call raises before anything is sent.
notify_manager_confirmation(user_id, user_name, week_start) ==
    IF managerId = None THEN "returned" ELSE "raised"

\* record_shift_confirmation without the "already confirmed this week" query
record_shift_confirmation_nocheck(db, user_id, user_name) ==
    LET row == [id |-> db.confSeq + 1, user_id |-> user_id,
                employee_name |-> user_name, confirmed_at |-> now,
                week_start |-> WeekStart(now), status |-> "confirmed"]
        recorded == [db EXCEPT !.shift_confirmations = @ \cup {row},
                               !.confSeq = @ + 1]
    IN  IF notify_manager_confirmation(user_id, user_name, WeekStart(now)) = "raised"
        THEN [db |-> recorded, success |-> FALSE, message |-> ReplyConfirmError]
        ELSE [db |-> recorded, success |-> TRUE, message |-> ReplyConfirmed(user_name)]

\* record_shift_confirmation
record_shift_confirmation(db, user_id, user_name) ==
    LET week_start_date == WeekStart(now)
        existing == {r \in db.shift_confirmations :
                        /\ r.user_id = user_id
                        /\ r.week_start = week_start_date
                        /\ r.status = "confirmed"}
        row == [id |-> db.confSeq + 1, user_id |-> user_id,
                employee_name |-> user_name, confirmed_at |-> now,
                week_start |-> week_start_date, status |-> "confirmed"]
        recorded == [db EXCEPT !.shift_confirmations = @ \cup {row},
                               !.confSeq = @ + 1]
    IN  IF existing # {}
        THEN [db |-> db, success |-> FALSE, message |-> ReplyAlreadyConfirmed]
        ELSE IF notify_manager_confirmation(user_id, user_name, week_start_date) = "raised"
        THEN [db |-> recorded, success |-> FALSE, message |-> ReplyConfirmError]
        ELSE [db |-> recorded, success |-> TRUE, message |-> ReplyConfirmed(user_name)]

----------------------------------------------------------------------------
(* process_user_message.                                                   *)

\* the two store_conversation calls that end a branch, and its result
Respond(db, user_id, user_message, response, pushes, dbst) ==
    {[db |-> d2, reply |-> response, pushes |-> pushes] :
        d2 \in UNION {store_conversation(d1, user_id, "assistant", response, dbst) :
                        d1 \in store_conversation(db, user_id, "user", user_message, dbst)}}

\* a router with a path that removes the sender's Directory entry
RouteRegistered_unregisters(db, user_id, user_name, user_message, ai, gw) ==
    Respond([db EXCEPT !.users = {r \in @ : r.line_user_id # user_id}],
            user_id, user_message, generate_ai_response(user_message, ai), <<>>, "ok")

\* a router that looks for a confirmation before it looks for a change request
RouteRegistered_confirmationFirst(db, user_id, user_name, user_message, ai, gw) ==
    IF is_shift_confirmation(user_message)
    THEN LET rc == record_shift_confirmation(db, user_id, user_name)
         IN  Respond(rc.db, user_id, user_message, rc.message, <<>>, "ok")
    ELSE IF is_schedule_change_request(user_message)
    THEN Respond(db, user_id, user_message,
                 ReplyChangeAccepted(user_name, user_message),
                 notify_manager_schedule_change(user_id, user_name, user_message, gw),
                 "ok")
    ELSE Respond(db, user_id, user_message, get_shift_response(user_name), <<>>, "ok")

RouteRegistered(db, user_id, user_name, user_message, ai, gw) ==
    IF is_schedule_change_request(user_message)
    THEN Respond(db, user_id, user_message,
                 ReplyChangeAccepted(user_name, user_message),
                 notify_manager_schedule_change(user_id, user_name, user_message, gw),
                 "ok")
    ELSE IF is_shift_confirmation(user_message)
    THEN LET rc == record_shift_confirmation(db, user_id, user_name)
         IN  Respond(rc.db, user_id, user_message, rc.message, <<>>, "ok")
    ELSE IF is_shift_inquiry(user_message)
    THEN Respond(db, user_id, user_message, get_shift_response(user_name), <<>>, "ok")
    ELSE Respond(db, user_id, user_message,
                 generate_ai_response(user_message, ai), <<>>, "ok")

\* a users table whose employee_name is not UNIQUE
InsertUserFails_idonly(db, user_id, formatted_name) ==
    \E r \in db.users : r.line_user_id = user_id

\* a users table whose line_user_id is no key
InsertUserFails_nameonly(db, user_id, formatted_name) ==
    \E r \in db.users : r.employee_name = formatted_name

\* INSERT INTO users: IntegrityError on a taken id or a taken name.  The
\* statement opened a transaction on the handler's connection, which stays
\* open, and holds the write lock, until the handler returns.
InsertUserFails(db, user_id, formatted_name) ==
    \E r \in db.users :
        r.line_user_id = user_id \/ r.employee_name = formatted_name

RouteUnregistered(db, user_id, user_message) ==
    IF IsRegistrationKeyword(user_message)
    THEN Respond(db, user_id, user_message, ReplyInstructions, <<>>, "ok")
    ELSE IF Len(user_message) >= NAME_MIN
    THEN LET v == validate_and_format_name(user_message)
         IN  IF v.name # <<>>
             THEN IF InsertUserFails(db, user_id, v.name)
                  THEN Respond(db, user_id, user_message,
                               ReplyNameTaken(user_message), <<>>, "locked")
                  ELSE Respond([db EXCEPT !.users = @ \cup
                                    {[line_user_id |-> user_id,
                                      employee_name |-> v.name]}],
                               user_id, user_message, ReplyRegistered(v.name), <<>>, "ok")
             ELSE Respond(db, user_id, user_message,
                          ReplyInvalidName(v.error), <<>>, "ok")
    ELSE Respond(db, user_id, user_message, ReplyPleaseRegister, <<>>, "ok")

\* process_user_message: the results it may have.  dbst = "down": the first
\* query raises, the handler answers with the apology and its own two
\* store_conversation calls fail silently.
process_user_message(db, user_id, user_message, ai, dbst, gw) ==
    IF dbst = "down"
    THEN Respond(db, user_id, user_message, ReplyApology, <<>>, "down")
    ELSE LET existing_user == {r \in db.users : r.line_user_id = user_id}
         IN  IF existing_user # {}
             THEN RouteRegistered(db, user_id,
                                  (CHOOSE r \in existing_user : TRUE).employee_name,
                                  user_message, ai, gw)
             ELSE RouteUnregistered(db, user_id, user_message)

----------------------------------------------------------------------------
(* The webhook.                                                            *)

EmptyRun(db) == [db |-> db, replies |-> <<>>, pushes |-> <<>>]

\* a loop that gives up the rest of the batch when routing an event fails
RECURSIVE RunEvents_abortOnFailure(_, _, _, _, _)
RunEvents_abortOnFailure(acc, events, orc, gw, i) ==
    IF i > Len(events) THEN {acc}
    ELSE LET event == events[i]
             user_id == event.userId
             user_message == Strip(event.text)
         IN  IF event.kind # "text" \/ user_id = None \/ user_message = <<>>
             THEN RunEvents_abortOnFailure(acc, events, orc, gw, i + 1)
             ELSE IF orc[i].db # "ok" THEN {acc}
             ELSE UNION {
                 RunEvents_abortOnFailure(
                           [db |-> r.db,
                            replies |-> Append(acc.replies,
                                [user_id |-> user_id, text |-> user_message,
                                 reply |-> r.reply, db |-> orc[i].db]),
                            pushes |-> acc.pushes \o r.pushes \o
                                <<send_line_message(user_id, r.reply, gw)>>],
                           events, orc, gw, i + 1) :
                 r \in process_user_message(acc.db, user_id, user_message,
                                            orc[i].ai, orc[i].db, gw)}

\* the loop over the events of one delivery, from event i on
RECURSIVE RunEvents(_, _, _, _, _)
RunEvents(acc, events, orc, gw, i) ==
    IF i > Len(events) THEN {acc}
    ELSE LET event == events[i]
             user_id == event.userId
             user_message == Strip(event.text)
         IN  IF event.kind # "text" \/ user_id = None \/ user_message = <<>>
             THEN RunEvents(acc, events, orc, gw, i + 1)
             ELSE UNION {
                 RunEvents([db |-> r.db,
                            replies |-> Append(acc.replies,
                                [user_id |-> user_id, text |-> user_message,
                                 reply |-> r.reply, db |-> orc[i].db]),
                            pushes |-> acc.pushes \o r.pushes \o
                                <<send_line_message(user_id, r.reply, gw)>>],
                           events, orc, gw, i + 1) :
                 r \in process_user_message(acc.db, user_id, user_message,
                                            orc[i].ai, orc[i].db, gw)}

Answer(run, http, status) ==
    [db |-> run.db, http |-> http, status |-> status,
     replies |-> run.replies, pushes |-> run.pushes]

\* an outermost handler that lets the exception through
WebhookError_raised(db) == Answer(EmptyRun(db), 500, "error")

\* the outermost except of webhook
WebhookError(db) == Answer(EmptyRun(db), 200, "error")

\* webhook: the answers it may give to one request
webhook(db, req, orc, gw) ==
    IF req.method = "GET" THEN {Answer(EmptyRun(db), 200, "active")}
    ELSE IF req.kind = "not_json" THEN {Answer(EmptyRun(db), 400, "error")}
    ELSE IF req.kind = "bad_json" THEN {WebhookError(db)}
    ELSE IF req.kind = "falsy" THEN {Answer(EmptyRun(db), 400, "error")}
    ELSE IF req.kind = "scalar" THEN {WebhookError(db)}
    ELSE IF req.kind = "no_events" THEN {Answer(EmptyRun(db), 400, "error")}
    ELSE IF req.kind = "events_scalar" THEN {WebhookError(db)}
    ELSE {Answer(run, 200, "success") :
             run \in RunEvents(EmptyRun(db), req.events, orc, gw, 1)}

----------------------------------------------------------------------------
(* send_messages.                                                          *)

Null == <<"<null>">>        \* a JSON null, a cell without a value
Absent == <<"<absent>">>    \* a key, or a column, that is not there

required_columns == <<"employee_name", "shift_date", "start_time", "end_time">>

\* the characters of the model in the order of their code points
CodeOrder ==
    <<" ", "1", "A", "B", "C", "D", "E", "F", "G", "H", "I", "J", "K", "L",
      "M", "N", "O", "P", "Q", "R", "S", "T", "U", "V", "W", "X", "Y", "Z",
      "a", "b", "c", "d", "e", "f", "g", "h", "i", "j", "k", "l", "m", "n",
      "o", "p", "q", "r", "s", "t", "u", "v", "w", "x", "y", "z", "hi:i",
      "hi:u", "hi:e", "hi:ka", "hi:ku", "hi:shi", "hi:ta", "hi:xtsu",
      "hi:tsu", "hi:te", "hi:to", "hi:no", "hi:ha", "hi:ma", "hi:mi",
      "hi:ra", "hi:ri", "hi:re", "hi:ro", "hi:wa", "ka:shi", "ka:to",
      "ka:fu", "kj:ryou", "kj:kon", "kj:dai", "kj:yasu", "kj:nani",
      "kj:shuu", "kj:nyuu", "kj:shutsu", "kj:mu", "kj:kin", "kj:hen",
      "kj:ta", "kj:shou", "kj:nichi", "kj:mei", "kj:ji", "kj:kou",
      "kj:tai", "kj:rai", "kj:sei", "kj:tou", "kj:chi", "kj:kaku",
      "kj:gyou", "kj:kai", "kj:nin", "kj:shuukan", "kj:rou", "kj:roku">>
Code(c) == CHOOSE i \in 1..Len(CodeOrder) : CodeOrder[i] = c

\* a < b, as Python orders strings
StrLess(a, b) ==
    \E i \in 1..(Len(b)) :
        /\ i <= Len(a) + 1
        /\ \A j \in 1..(i - 1) : a[j] = b[j]
        /\ i = Len(a) + 1 \/ Code(a[i]) < Code(b[i])

\* the group keys in the order groupby yields them
RECURSIVE SortKeys(_)
SortKeys(S) ==
    IF S = {} THEN <<>>
    ELSE LET m == CHOOSE x \in S : \A y \in S \ {x} : StrLess(x, y)
         IN  <<m>> \o SortKeys(S \ {m})

\* the truth value Python gives a cell
Truthy(v) == v \notin {Null, Absent, <<>>}

AttendanceMarker == <<"kj:shutsu", "kj:kin">>

ShiftInfo(row) ==
    <<"date: ">> \o (IF row.shift_date = Null THEN <<"None">> ELSE row.shift_date)
      \o (IF Truthy(row.start_time) /\ Truthy(row.end_time)
          THEN <<", ">> \o row.start_time \o <<" - ">> \o row.end_time
          ELSE IF row.start_time = AttendanceMarker
          THEN <<", time: ">> \o row.start_time
          ELSE <<>>)
      \o (IF row.place \notin {Null, Absent} THEN <<" ">> \o row.place ELSE <<>>)

RECURSIVE ShiftLines(_, _, _)
ShiftLines(data, name, i) ==
    IF i > Len(data) THEN <<>>
    ELSE (IF data[i].employee_name = name
          THEN <<"- ">> \o ShiftInfo(data[i]) \o <<"\n">>
          ELSE <<>>) \o ShiftLines(data, name, i + 1)

MessageBody(data, name) ==
    name \o <<"[san, these shifts are scheduled]">>
         \o ShiftLines(data, name, 1) \o <<"[thank you]">>

ErrNotFound(name) == <<"[user not found in database]">> \o name

\* a loop that asks the Directory for each group, instead of the dict lookup
RECURSIVE SendLoop_queryPerEmployee(_, _, _, _, _, _)
SendLoop_queryPerEmployee(acc, keys, i, data, registered_users, accepts) ==
    IF i > Len(keys) THEN acc
    ELSE LET name == keys[i]
             found == {r \in registered_users : r.employee_name = name}
             asked == [acc EXCEPT !.directory_reads = @ + 1]
         IN  IF found = {}
             THEN SendLoop_queryPerEmployee(
                      [asked EXCEPT !.failed_sends = @ + 1,
                                    !.errors = Append(@, ErrNotFound(name))],
                      keys, i + 1, data, registered_users, accepts)
             ELSE LET line_user_id == (CHOOSE r \in found : TRUE).line_user_id
                      push == send_line_message(line_user_id, MessageBody(data, name),
                                                line_user_id \in accepts)
                  IN  SendLoop_queryPerEmployee(
                          IF SendSucceeded(push)
                          THEN [asked EXCEPT !.successful_sends = @ + 1,
                                             !.pushes = Append(@, push)]
                          ELSE [asked EXCEPT !.failed_sends = @ + 1,
                                             !.pushes = Append(@, push)],
                          keys, i + 1, data, registered_users, accepts)

\* a loop that pushes a second time when a push fails
RECURSIVE SendLoop_retryFailed(_, _, _, _, _, _)
SendLoop_retryFailed(acc, keys, i, data, registered_users, accepts) ==
    IF i > Len(keys) THEN acc
    ELSE LET name == keys[i]
             found == {r \in registered_users : r.employee_name = name}
         IN  IF found = {}
             THEN SendLoop_retryFailed(
                      [acc EXCEPT !.failed_sends = @ + 1,
                                  !.errors = Append(@, ErrNotFound(name))],
                      keys, i + 1, data, registered_users, accepts)
             ELSE LET line_user_id == (CHOOSE r \in found : TRUE).line_user_id
                      push == send_line_message(line_user_id, MessageBody(data, name),
                                                line_user_id \in accepts)
                  IN  SendLoop_retryFailed(
                          IF SendSucceeded(push)
                          THEN [acc EXCEPT !.successful_sends = @ + 1,
                                           !.pushes = Append(@, push)]
                          ELSE [acc EXCEPT !.failed_sends = @ + 1,
                                           !.pushes = Append(Append(@, push), push)],
                          keys, i + 1, data, registered_users, accepts)

\* the loop over the groups, from group i on
RECURSIVE SendLoop(_, _, _, _, _, _)
SendLoop(acc, keys, i, data, registered_users, accepts) ==
    IF i > Len(keys) THEN acc
    ELSE LET name == keys[i]
             found == {r \in registered_users : r.employee_name = name}
         IN  IF found = {}
             THEN SendLoop([acc EXCEPT !.failed_sends = @ + 1,
                                       !.errors = Append(@, ErrNotFound(name))],
                           keys, i + 1, data, registered_users, accepts)
             ELSE LET line_user_id == (CHOOSE r \in found : TRUE).line_user_id
                      push == send_line_message(line_user_id, MessageBody(data, name),
                                                line_user_id \in accepts)
                  IN  SendLoop(IF SendSucceeded(push)
                               THEN [acc EXCEPT !.successful_sends = @ + 1,
                                                !.pushes = Append(@, push)]
                               ELSE [acc EXCEPT !.failed_sends = @ + 1,
                                                !.pushes = Append(@, push)],
                               keys, i + 1, data, registered_users, accepts)

ERRORS_SHOWN == 5

\* s[:n]
Take(s, n) == IF Len(s) <= n THEN s ELSE SubSeq(s, 1, n)

Tally(http, status, message, acc, reads) ==
    [http |-> http, status |-> status, message |-> message,
     successful_sends |-> acc.successful_sends, failed_sends |-> acc.failed_sends,
     errors |-> Take(acc.errors, ERRORS_SHOWN), pushes |-> acc.pushes,
     directory_reads |-> reads]

NoTally ==
    [successful_sends |-> 0, failed_sends |-> 0, errors |-> <<>>, pushes |-> <<>>,
     directory_reads |-> 0]

\* send_messages.  accepts: the recipients whose push the gateway accepts.
send_messages(db, req, dbst, accepts) ==
    IF req.kind = "bad_json" THEN Tally(200, "error", "Error", NoTally, 0)
    ELSE IF req.kind = "no_data" THEN Tally(200, "error", "No data", NoTally, 0)
    ELSE IF req.data = <<>> THEN Tally(400, "error", "No data provided", NoTally, 0)
    ELSE IF \E i \in 1..Len(req.data), k \in 1..Len(required_columns) :
                req.data[i][required_columns[k]] = Absent
    THEN Tally(400, "error", "Data missing required keys", NoTally, 0)
    ELSE IF dbst = "down" THEN Tally(200, "error", "Error", NoTally, 0)
    ELSE LET grouped_shifts ==
                 SortKeys({req.data[i].employee_name : i \in 1..Len(req.data)} \ {Null})
             \* SELECT employee_name, line_user_id FROM users: one read
             registered_users == db.users
             acc == SendLoop([NoTally EXCEPT !.directory_reads = 1], grouped_shifts, 1,
                             req.data, registered_users, accepts)
         IN  IF acc.failed_sends = 0
             THEN Tally(200, "success", "Successfully sent", acc, acc.directory_reads)
             ELSE IF acc.successful_sends = 0
             THEN Tally(200, "error", "Failed to send all", acc, acc.directory_reads)
             ELSE Tally(200, "warning", "Sent some", acc, acc.directory_reads)

----------------------------------------------------------------------------
(* upload_file.                                                            *)

ALLOWED_EXTENSIONS == {<<"x","l","s","x">>, <<"x","l","s">>}

\* '.' in filename and filename.rsplit('.', 1)[1].lower() in ALLOWED_EXTENSIONS
allowed_file(filename) ==
    LET dots == {i \in 1..Len(filename) : filename[i] = "."}
    IN  /\ dots # {}
        /\ LET last == CHOOSE i \in dots : \A j \in dots : j <= i
           IN  Lower(SubSeq(filename, last + 1, Len(filename))) \in ALLOWED_EXTENSIONS

\* [col for col in required_columns if col not in df.columns]
IsMissingIn(columns, col) == col \notin columns

\* a validation that stops at the first missing column
MissingColumns_first(columns) ==
    LET all == SelectSeq(required_columns, LAMBDA col : IsMissingIn(columns, col))
    IN  IF all = <<>> THEN <<>> ELSE <<Head(all)>>

MissingColumns(columns) ==
    SelectSeq(required_columns, LAMBDA col : IsMissingIn(columns, col))

\* a row with a null in a required column
HasNull(row) == \E k \in 1..Len(required_columns) : row[required_columns[k]] = Null

\* validate_excel_data
validate_excel_data(df) ==
    LET missing_columns == MissingColumns(df.columns)
    IN  IF missing_columns # <<>>
        THEN [is_valid |-> FALSE,
              message |-> <<"Missing required columns: ">> \o missing_columns]
        ELSE IF \E i \in 1..Len(df.rows) : HasNull(df.rows[i])
        THEN [is_valid |-> FALSE, message |-> <<"Some rows have missing data">>]
        ELSE [is_valid |-> TRUE, message |-> <<"Valid data structure">>]

\* str(cell)
Str(cell) == IF cell = Null THEN <<"nan">> ELSE cell

\* str(cell).split(' ')[0]
DatePart(cell) ==
    LET text == Str(cell)
        spaces == {i \in 1..Len(text) : text[i] = " "}
    IN  IF spaces = {} THEN text
        ELSE SubSeq(text, 1, (CHOOSE i \in spaces : \A j \in spaces : i <= j) - 1)

PreviewRecord(row) ==
    [employee_name |-> Str(row.employee_name),
     line_user_id |-> Str(row.line_user_id),
     shift_date |-> DatePart(row.shift_date),
     start_time |-> Str(row.start_time),
     end_time |-> Str(row.end_time)]

IsComplete(row) == ~HasNull(row)

UploadAnswer(status, message, data) ==
    [status |-> status, message |-> message, data |-> data,
     pushes |-> <<>>, directory_reads |-> 0]

\* upload_file
upload_file(req) ==
    IF ~req.has_file THEN UploadAnswer("error", <<"No file uploaded">>, <<>>)
    ELSE IF req.filename = <<>> THEN UploadAnswer("error", <<"No file selected">>, <<>>)
    ELSE IF ~allowed_file(req.filename)
    THEN UploadAnswer("error", <<"Invalid file type">>, <<>>)
    ELSE IF ~req.readable
    THEN UploadAnswer("error", <<"Error processing file: ", "read_excel">>, <<>>)
    ELSE LET v == validate_excel_data(req.df)
             kept == SelectSeq(req.df.rows, IsComplete)
         IN  IF ~v.is_valid THEN UploadAnswer("error", v.message, <<>>)
             ELSE IF kept = <<>>
             THEN UploadAnswer("error", <<"No valid data found in the uploaded file">>, <<>>)
             ELSE IF "line_user_id" \notin req.df.columns
             THEN UploadAnswer("error", <<"Error processing file: ", "line_user_id">>, <<>>)
             ELSE UploadAnswer("success", <<"Successfully uploaded and validated">>,
                               [i \in 1..Len(kept) |-> PreviewRecord(kept[i])])

----------------------------------------------------------------------------
(* The requests of the model.                                              *)

Users == {"U1", "U2"}

TxTouroku == KwTouroku                          \* the registration keyword
TxRegister == <<"R","e","g","i","s","t","e","r">>
TxTourokuSpaced == <<"kj:tou", " ", "kj:roku">> \* the keyword, with a space
TxTaro == <<"kj:ta", "kj:rou">>                 \* a name
TxTaroSpaced == <<"kj:ta", " ", "kj:rou">>      \* the same name, with a space
TxOk == <<"o","k">>                             \* a name and a confirmation
TxKakuninHenkou == <<"kj:kaku", "kj:nin", "kj:hen", "kj:kou">>
TxOkItsu == <<"O","K","hi:i","hi:tsu">>         \* confirmation and inquiry
TxItsu == <<"hi:i", "hi:tsu">>                  \* an inquiry
TxDigit == <<"a","1">>                          \* not a name
TxOne == <<"kj:ta">>                            \* one character
TxLong == [i \in 1..(NAME_MAX + 1) |-> "a"]     \* too long for a name
TxBlank == <<" ", " ">>

Texts == {TxTouroku, TxTourokuSpaced, TxRegister, TxTaro, TxTaroSpaced, TxOk, TxKakuninHenkou,
          TxOkItsu, TxItsu, TxDigit, TxOne, TxLong}
NameTexts == {TxTaro, TxTaroSpaced, TxOk, TxTouroku}

TextEvent(u, t) == [kind |-> "text", userId |-> u, text |-> t]
OtherEvent == [kind |-> "other", userId |-> "U1", text |-> TxOk]
MalformedEvent == [kind |-> "malformed", userId |-> None, text |-> <<>>]

Post(kind, events) == [method |-> "POST", kind |-> kind, events |-> events]

\* deliveries of one text message: every text from U1, the names from U2
RouterRequests ==
    {Post("events", <<TextEvent("U1", t)>>) : t \in Texts}
        \cup {Post("events", <<TextEvent("U2", t)>>) : t \in NameTexts}

\* deliveries of the confirmation scenario: texts that register a name and
\* that confirm, ask or request a change once it is registered
WeekRequests ==
    {Post("events", <<TextEvent("U1", t)>>) :
        t \in {TxOk, TxOkItsu, TxKakuninHenkou, TxItsu}}
        \cup {Post("events", <<TextEvent("U2", TxOk)>>)}

\* deliveries that meet every branch of the router around one Directory entry
DirectoryRequests ==
    {Post("events", <<TextEvent("U1", t)>>) :
        t \in {TxOk, TxTouroku, TxDigit, TxKakuninHenkou}}
        \cup {Post("events", <<TextEvent("U2", t)>>) : t \in {TxOk, TxTaro}}

\* deliveries of every shape, over two texts
HttpEvents ==
    {TextEvent(u, t) : u \in Users, t \in {TxTaro, TxOk}}
        \cup {TextEvent(None, TxOk), TextEvent("U1", TxBlank), OtherEvent, MalformedEvent}
BatchEvents ==
    {TextEvent("U1", TxTaro), TextEvent("U1", TxOk), TextEvent("U2", TxTaro),
     MalformedEvent}
HttpRequests ==
    {[method |-> "GET", kind |-> "get", events |-> <<>>]}
        \cup {Post(k, <<>>) : k \in {"not_json", "bad_json", "falsy", "scalar",
                                     "no_events", "events_scalar", "events"}}
        \cup {Post("events", <<e>>) : e \in HttpEvents}
        \cup {Post("events", <<e, f>>) : e \in BatchEvents, f \in BatchEvents}

\* the name submissions that feed the Directory of SpecSend
NameRequests ==
    {Post("events", <<TextEvent(u, t)>>) : u \in Users, t \in {TxTaro, TxTaroSpaced, TxOk}}

NmAlice == <<"A","l","i","c","e">>
Date1 == <<"2024-01-01">>
T0900 == <<"09:00">>
T1700 == <<"17:00">>

ShiftRow(name, start, end, place) ==
    [employee_name |-> name, shift_date |-> Date1, start_time |-> start,
     end_time |-> end, place |-> place]

\* the rows a posted sheet is made of, in sheet order
SendRows ==
    <<ShiftRow(TxTaro, T0900, T1700, Absent),
      ShiftRow(TxOk, AttendanceMarker, T1700, Null),
      ShiftRow(NmAlice, AttendanceMarker, <<>>, <<"Tokyo">>),
      ShiftRow(Null, T0900, T1700, Absent),
      ShiftRow(TxOk, T0900, Absent, Absent)>>

\* the sheets of n rows: rows of SendRows, repeated or left out, in sheet order
SheetsOf(n) ==
    {[i \in 1..n |-> SendRows[f[i]]] :
        f \in {g \in [1..n -> 1..Len(SendRows)] :
                  \A i \in 1..n, j \in 1..n : i < j => g[i] <= g[j]}}

SendRequests ==
    {[kind |-> "bad_json", data |-> <<>>], [kind |-> "no_data", data |-> <<>>]}
        \cup {[kind |-> "data", data |-> d] : d \in UNION {SheetsOf(n) : n \in 0..MaxRows}}

RECURSIVE SeqsUpTo(_, _)
SeqsUpTo(S, n) ==
    IF n = 0 THEN {<<>>}
    ELSE LET shorter == SeqsUpTo(S, n - 1)
         IN  shorter \cup {Append(q, x) : q \in shorter, x \in S}

AllColumns == SeqRange(required_columns) \cup {"line_user_id", "place"}
ExtraColumns == {{}, {"line_user_id", "place"}}

SheetRow(name, date, start, end) ==
    [employee_name |-> name, shift_date |-> date, start_time |-> start,
     end_time |-> end, line_user_id |-> <<"U1">>, place |-> Null]

SheetRows ==
    {SheetRow(TxTaro, <<"2024-01-01", " ", "00:00:00">>, T0900, T1700),
     SheetRow(TxOk, Date1, Null, T1700),
     SheetRow(Null, Date1, T0900, Null)}

\* the cells of a row that the columns of the table hold
Project(row, columns) ==
    [c \in AllColumns |-> IF c \in columns THEN row[c] ELSE Absent]

Table(columns, rows) ==
    [columns |-> columns, rows |-> [i \in 1..Len(rows) |-> Project(rows[i], columns)]]

File(has_file, filename, readable, df) ==
    [has_file |-> has_file, filename |-> filename, readable |-> readable, df |-> df]

FnXlsx == <<"a", ".", "x","l","s","x">>
FnXLS == <<"a", ".", "b", ".", "X","L","S">>
FnCsv == <<"a", ".", "c","s","v">>
FnNoDot == <<"x","l","s","x">>

UploadRequests ==
    {File(TRUE, FnXlsx, TRUE, Table(req \cup extra, rows)) :
        req \in SUBSET SeqRange(required_columns), extra \in ExtraColumns,
        rows \in SeqsUpTo(SheetRows, MaxRows)}
      \cup {File(FALSE, <<>>, FALSE, Table({}, <<>>)),
            File(TRUE, <<>>, FALSE, Table({}, <<>>)),
            File(TRUE, FnCsv, TRUE, Table({"shift_date"}, <<>>)),
            File(TRUE, FnNoDot, TRUE, Table({"shift_date"}, <<>>)),
            File(TRUE, FnXlsx, FALSE, Table({}, <<>>)),
            File(TRUE, FnXLS, TRUE, Table({"shift_date", "place"}, <<>>))}

\* what the collaborators do while one event is routed
RouterOracles == {[ai |-> "ok", db |-> "ok"], [ai |-> "fail", db |-> "ok"]}
HttpOracles == RouterOracles \cup {[ai |-> "ok", db |-> "down"]}

----------------------------------------------------------------------------
(* Actions.                                                                *)

SetDB(db) ==
    /\ users' = db.users
    /\ conversations' = db.conversations
    /\ shift_confirmations' = db.shift_confirmations
    /\ convSeq' = db.convSeq
    /\ confSeq' = db.confSeq

WebhookCall(req, orc, gw, max) ==
    /\ convSeq + 2 * Len(req.events) <= 2 * max
    /\ \E r \in webhook(DB, req, orc, gw) :
        /\ SetDB(r.db)
        /\ out' = [op |-> "webhook", method |-> req.method, kind |-> req.kind,
                   events |-> req.events, http |-> r.http, status |-> r.status,
                   replies |-> r.replies, pushes |-> r.pushes]
    /\ UNCHANGED <<now, lineToken, managerId, handlers>>

\* one text message arrives and is routed
WebhookMessage ==
    \E req \in RouterRequests, orc \in [{1} -> RouterOracles] :
        WebhookCall(req, orc, TRUE, MaxMsgs)

\* one text message of the confirmation scenario arrives and is routed
WebhookWeekMessage ==
    \E req \in WeekRequests, orc \in [{1} -> RouterOracles] :
        WebhookCall(req, orc, TRUE, MaxWeekMsgs)

\* one delivery of any shape arrives
WebhookDelivery ==
    \E req \in HttpRequests, gw \in BOOLEAN :
        \E orc \in [1..Len(req.events) -> HttpOracles] :
            WebhookCall(req, orc, gw, MaxMsgs)

\* one text message arrives while sheets are being dispatched
WebhookDirectoryMessage ==
    \E req \in DirectoryRequests, orc \in [{1} -> RouterOracles] :
        WebhookCall(req, orc, TRUE, MaxMsgs)

\* a sheet of one row is dispatched
SendOneRow ==
    \E data \in SheetsOf(1), accepts \in {Users, {}} :
        /\ out' = [op |-> "send_messages",
                   request |-> [kind |-> "data", data |-> data], db |-> "ok"]
                    @@ send_messages(DB, [kind |-> "data", data |-> data], "ok", accepts)
        /\ UNCHANGED <<users, conversations, shift_confirmations, convSeq, confSeq,
                       now, lineToken, managerId, handlers>>

\* a name is submitted by a user id that is not registered yet
RegisterName ==
    \E req \in NameRequests :
        /\ \A r \in users : r.line_user_id # req.events[1].userId
        /\ WebhookCall(req, [i \in {1} |-> [ai |-> "ok", db |-> "ok"]], TRUE, MaxMsgs)

SendMessages ==
    \E req \in SendRequests, dbst \in {"ok", "down"}, accepts \in {Users, {"U1"}, {}} :
        /\ out' = [op |-> "send_messages", request |-> req, db |-> dbst]
                    @@ send_messages(DB, req, dbst, accepts)
        /\ UNCHANGED <<users, conversations, shift_confirmations, convSeq, confSeq,
                       now, lineToken, managerId, handlers>>

Upload ==
    \E req \in UploadRequests :
        /\ out' = [op |-> "upload_file", request |-> req] @@ upload_file(req)
        /\ UNCHANGED <<users, conversations, shift_confirmations, convSeq, confSeq,
                       now, lineToken, managerId, handlers>>

\* one call of store_conversation
StoreConversation ==
    \E user_id \in Users, role \in {"user"} :
        /\ convSeq < MaxLogRows
        /\ user_id # "U1" =>
               Cardinality({r \in conversations : r.user_id # "U1"}) < MaxOtherRows
        /\ \E db \in store_conversation(DB, user_id, role, TxOk, "ok") : SetDB(db)
        /\ out' = [op |-> "store_conversation", user_id |-> user_id]
        /\ UNCHANGED <<now, lineToken, managerId, handlers>>

\* the deliveries that may be handled at the same time
Procs == {1, 2}

\* a delivery that has not arrived yet
IdleHandler ==
    [pc |-> "idle", text |-> <<>>, user_name |-> <<>>, reply |-> <<>>,
     insert |-> "none", logged |-> 0, pushes |-> <<>>]

Init ==
    /\ handlers = [p \in Procs |-> IdleHandler]
    /\ users = {}
    /\ conversations = {}
    /\ shift_confirmations = {}
    /\ convSeq = 0
    /\ confSeq = 0
    /\ now = 0
    /\ lineToken \in BOOLEAN
    /\ managerId \in {None, "manager"}
    /\ out = [op |-> "none"]

Tick ==
    /\ now < MaxClock
    /\ now' = now + 1
    /\ UNCHANGED <<users, conversations, shift_confirmations, convSeq, confSeq,
                   lineToken, managerId, out, handlers>>

Next == Tick \/ WebhookMessage

\* the router, with the gateway token configured
InitRouter == Init /\ lineToken
Spec == InitRouter /\ [][Next]_vars

NextWeek == Tick \/ WebhookWeekMessage
SpecWeek == InitRouter /\ [][NextWeek]_vars

NextDirectory == WebhookDirectoryMessage \/ SendOneRow
SpecDirectory == InitRouter /\ [][NextDirectory]_vars

NextHttp == Tick \/ WebhookDelivery
InitHttp == Init /\ managerId = None
SpecHttp == InitHttp /\ [][NextHttp]_vars

InitSend == Init /\ managerId = None

\* one configuration, for the requests that read none
InitFixed == InitSend /\ lineToken

NextUpload == Upload
SpecUpload == InitFixed /\ [][NextUpload]_vars

NextLog == Tick \/ StoreConversation
SpecLog == InitFixed /\ [][NextLog]_vars

NextSend == RegisterName \/ SendMessages
SpecSend == InitSend /\ [][NextSend]_vars

----------------------------------------------------------------------------
(* Deliveries handled at the same time.  Every handler runs                *)
(* process_user_message for a text of RaceUser, one database statement     *)
(* a step.  An INSERT and the commit that follows it are one step: nothing *)
(* happens between them and a connection that meets the write lock waits   *)
(* for it.  The one write lock held across steps is that of a handler      *)
(* whose INSERT INTO users failed: it keeps the lock until it returns,     *)
(* while its own two log writes wait five seconds each, so a connection    *)
(* that meets this lock may also give up with "database is locked".        *)

RaceUser == "U1"
RaceTexts == {TxTaro, TxOk}

\* another handler holds the write lock
Locked(p) == \E q \in Procs \ {p} : handlers[q].pc = "collide"

Goto(p, pc, reply) ==
    handlers' = [handlers EXCEPT ![p].pc = pc, ![p].reply = reply]

\* the delivery arrives at the webhook
Receive(p) ==
    \E text \in RaceTexts :
        /\ handlers[p].pc = "idle"
        /\ handlers' = [handlers EXCEPT ![p].pc = "lookup", ![p].text = text]
        /\ UNCHANGED <<users, conversations, shift_confirmations, convSeq, confSeq,
                       now, lineToken, managerId, out>>

\* SELECT employee_name FROM users, and the branch it leads to
Lookup(p) ==
    LET text == handlers[p].text
        existing_user == {r \in users : r.line_user_id = RaceUser}
        user_name == (CHOOSE r \in existing_user : TRUE).employee_name
        answer(reply, pushes) ==
            handlers' = [handlers EXCEPT ![p].pc = "log_user", ![p].reply = reply,
                                         ![p].pushes = pushes]
    IN  /\ handlers[p].pc = "lookup"
        /\ IF existing_user # {}
           THEN IF is_schedule_change_request(text)
                THEN answer(ReplyChangeAccepted(user_name, text),
                            notify_manager_schedule_change(RaceUser, user_name, text, TRUE))
                ELSE IF is_shift_confirmation(text)
                THEN handlers' = [handlers EXCEPT ![p].pc = "confirm_lookup",
                                                  ![p].user_name = user_name]
                ELSE IF is_shift_inquiry(text)
                THEN answer(get_shift_response(user_name), <<>>)
                ELSE answer(generate_ai_response(text, "ok"), <<>>)
           ELSE IF IsRegistrationKeyword(text) THEN answer(ReplyInstructions, <<>>)
                ELSE IF Len(text) >= NAME_MIN
                THEN LET v == validate_and_format_name(text)
                     IN  IF v.name # <<>>
                         THEN handlers' = [handlers EXCEPT ![p].pc = "insert_user",
                                                           ![p].user_name = v.name]
                         ELSE answer(ReplyInvalidName(v.error), <<>>)
                ELSE answer(ReplyPleaseRegister, <<>>)
        /\ UNCHANGED <<users, conversations, shift_confirmations, convSeq, confSeq,
                       now, lineToken, managerId, out>>

\* a handler without the outermost except: "database is locked" ends it
InsertUser_unhandled(p) ==
    /\ handlers[p].pc = "insert_user"
    /\ IF Locked(p)
       THEN handlers' = [handlers EXCEPT ![p].pc = "done", ![p].insert = "locked"]
       ELSE handlers' = [handlers EXCEPT ![p].pc = "collide", ![p].insert = "integrity",
                                         ![p].reply = ReplyNameTaken(handlers[p].text)]
    /\ UNCHANGED <<users, conversations, shift_confirmations, convSeq, confSeq,
                   now, lineToken, managerId, out>>

\* INSERT INTO users and its commit
InsertUser(p) ==
    LET name == handlers[p].user_name
        text == handlers[p].text
    IN  /\ handlers[p].pc = "insert_user"
        /\ IF Locked(p)
           THEN /\ handlers' = [handlers EXCEPT ![p].pc = "log_user",
                                                ![p].reply = ReplyApology,
                                                ![p].insert = "locked"]
                /\ users' = users
           ELSE IF InsertUserFails(DB, RaceUser, name)
           THEN /\ handlers' = [handlers EXCEPT ![p].pc = "collide",
                                                ![p].reply = ReplyNameTaken(text),
                                                ![p].insert = "integrity"]
                /\ users' = users
           ELSE /\ handlers' = [handlers EXCEPT ![p].pc = "log_user",
                                                ![p].reply = ReplyRegistered(name),
                                                ![p].insert = "ok"]
                /\ users' = users \cup {[line_user_id |-> RaceUser,
                                          employee_name |-> name]}
        /\ UNCHANGED <<conversations, shift_confirmations, convSeq, confSeq,
                       now, lineToken, managerId, out>>

\* after IntegrityError: both log writes fail on the handler's own lock, then
\* the handler returns and its connection lets the lock go
Collide(p) ==
    /\ handlers[p].pc = "collide"
    /\ handlers' = [handlers EXCEPT ![p].pc = "send"]
    /\ UNCHANGED <<users, conversations, shift_confirmations, convSeq, confSeq,
                   now, lineToken, managerId, out>>

\* record_shift_confirmation: SELECT id FROM shift_confirmations
ConfirmLookup(p) ==
    LET existing == {r \in shift_confirmations :
                        /\ r.user_id = RaceUser
                        /\ r.week_start = WeekStart(now)
                        /\ r.status = "confirmed"}
    IN  /\ handlers[p].pc = "confirm_lookup"
        /\ IF existing # {} THEN Goto(p, "log_user", ReplyAlreadyConfirmed)
           ELSE Goto(p, "confirm_insert", <<>>)
        /\ UNCHANGED <<users, conversations, shift_confirmations, convSeq, confSeq,
                       now, lineToken, managerId, out>>

\* record_shift_confirmation: INSERT INTO shift_confirmations, its commit and
\* the notice to the manager
ConfirmInsert(p) ==
    LET user_name == handlers[p].user_name
        row == [id |-> confSeq + 1, user_id |-> RaceUser,
                employee_name |-> user_name, confirmed_at |-> now,
                week_start |-> WeekStart(now), status |-> "confirmed"]
    IN  /\ handlers[p].pc = "confirm_insert"
        /\ IF Locked(p)
           THEN /\ Goto(p, "log_user", ReplyConfirmError)
                /\ UNCHANGED <<shift_confirmations, confSeq>>
           ELSE /\ shift_confirmations' = shift_confirmations \cup {row}
                /\ confSeq' = confSeq + 1
                /\ IF notify_manager_confirmation(RaceUser, user_name,
                                                  WeekStart(now)) = "raised"
                   THEN Goto(p, "log_user", ReplyConfirmError)
                   ELSE Goto(p, "log_user", ReplyConfirmed(user_name))
        /\ UNCHANGED <<users, conversations, convSeq, now, lineToken, managerId, out>>

\* one of the two store_conversation calls that end a branch
LogWrite(p) ==
    LET h == handlers[p]
        dbst == IF Locked(p) THEN "locked" ELSE "ok"
    IN  /\ h.pc \in {"log_user", "log_assistant"}
        /\ \E db \in store_conversation(DB, RaceUser,
                          IF h.pc = "log_user" THEN "user" ELSE "assistant",
                          IF h.pc = "log_user" THEN h.text ELSE h.reply, dbst) :
              SetDB(db)
        /\ handlers' = [handlers EXCEPT
               ![p].pc = IF h.pc = "log_user" THEN "log_assistant" ELSE "send",
               ![p].logged = IF dbst = "ok" THEN @ + 1 ELSE @]
        /\ UNCHANGED <<now, lineToken, managerId, out>>

\* webhook: the reply is pushed to the sender
Send(p) ==
    /\ handlers[p].pc = "send"
    /\ handlers' = [handlers EXCEPT
           ![p].pc = "done",
           ![p].pushes = Append(@, send_line_message(RaceUser, handlers[p].reply, TRUE))]
    /\ UNCHANGED <<users, conversations, shift_confirmations, convSeq, confSeq,
                   now, lineToken, managerId, out>>

\* the Directory is filled before the concurrent deliveries arrive
RegisterBefore ==
    /\ \A p \in Procs : handlers[p].pc = "idle"
    /\ RegisterName

NextRace ==
    \/ RegisterBefore
    \/ \E p \in Procs : Receive(p)
    \/ \E p \in Procs : Lookup(p)
    \/ \E p \in Procs : InsertUser(p)
    \/ \E p \in Procs : Collide(p)
    \/ \E p \in Procs : ConfirmLookup(p)
    \/ \E p \in Procs : ConfirmInsert(p)
    \/ \E p \in Procs : LogWrite(p)
    \/ \E p \in Procs : Send(p)
SpecRace == InitRouter /\ [][NextRace]_vars

----------------------------------------------------------------------------
(* Properties.                                                             *)

\* this step routed exactly one text message, with the database up
Routed ==
    /\ out'.op = "webhook"
    /\ Len(out'.replies) = 1
    /\ now' = now

Sender == out'.replies[1].user_id
Text == out'.replies[1].text
Reply == out'.replies[1].reply

IsRegistered(table, user_id) == \E r \in table : r.line_user_id = user_id
NameTaken(table, name) == \E r \in table : r.employee_name = name

\* the text is one of the start-registration keywords, in any letter case
IsKeywordText(text) == Lower(text) \in {KwTouroku, KwRegister, KwTourokuKana}

\* the text, stripped already, is acceptable as a name
IsValidName(text) ==
    /\ Len(text) >= 2
    /\ \A i \in 1..Len(text) :
          text[i] \in LatinLower \cup LatinUpper \cup Hiragana \cup Katakana
                        \cup Kanji \cup {" "}
    /\ Len(RemoveWhitespace(text)) <= 20

\* the last request was a send_messages call that reached the dispatch loop
Dispatched == out.op = "send_messages" /\ out.directory_reads = 1

\* the distinct employee names of the rows of the last send_messages call
RowNames ==
    {out.request.data[i].employee_name : i \in 1..Len(out.request.data)} \ {Null}
AbsentNames == {n \in RowNames : ~NameTaken(users, n)}
FailedPushes == Cardinality({i \in 1..Len(out.pushes) : out.pushes[i].result # "sent"})

\* C1, as claimed: a send_messages call over K distinct names, M of them absent
\* from the Directory, counts exactly M failed sends and attempts K - M pushes,
\* and answers success iff M = 0, error iff M = K, warning otherwise, whatever
\* the pushes return.
C1_FailedIsAbsent ==
    (Dispatched /\ lineToken /\ RowNames # {}) =>
        LET K == Cardinality(RowNames)
            M == Cardinality(AbsentNames)
        IN  /\ out.failed_sends = M
            /\ Len(out.pushes) = K - M
            /\ (out.status = "success") <=> (M = 0)
            /\ (out.status = "error") <=> (M = K)
            /\ (out.status = "warning") <=> (M # 0 /\ M # K)

\* C1, amended: a send_messages call that reaches the dispatch loop over K
\* distinct names, M of them absent from the Directory, calls send_line_message
\* exactly K - M times, once for each present name; with F of these calls
\* failing it counts M + F failed and K - M - F successful sends, and answers
\* success iff M + F = 0, error iff M + F > 0 and no send succeeded, warning
\* otherwise.
C1_FailedIsAbsentOrRefused ==
    Dispatched =>
        LET K == Cardinality(RowNames)
            M == Cardinality(AbsentNames)
            F == FailedPushes
        IN  /\ Len(out.pushes) = K - M
            /\ {out.pushes[i].to : i \in 1..Len(out.pushes)} =
                   {r.line_user_id : r \in {q \in users : q.employee_name \in RowNames}}
            /\ out.failed_sends = M + F
            /\ out.successful_sends = K - M - F
            /\ (out.status = "success") <=> (M + F = 0)
            /\ (out.status = "error") <=> (M + F > 0 /\ K - M - F = 0)
            /\ (out.status = "warning") <=> (M + F > 0 /\ K - M - F > 0)

\* C1, witness: two registered employees, one push refused by the gateway
C1_Witness ==
    /\ Dispatched
    /\ Cardinality(RowNames) = 2
    /\ AbsentNames = {}
    /\ FailedPushes = 1
    /\ out.failed_sends = 1
    /\ out.status = "warning"

\* C2, as claimed: when a registered name is submitted again, by any user id,
\* the Directory keeps one entry for the name, mapped to the first user id, and
\* the reply is the "name taken" error.
C2_ResubmitNameTaken ==
    [][\A r \in users :
          (Routed /\ RemoveWhitespace(Text) = r.employee_name) =>
              /\ {q \in users' : q.employee_name = r.employee_name} = {r}
              /\ Reply = ReplyNameTaken(Text)]_vars

\* C2, amended: when a registered name is submitted again the Directory is
\* unchanged, with one entry for the name mapped to the first user id; the
\* reply is the "name taken" error when the sender is not registered and the
\* text is no start-registration keyword, the registration instructions when
\* the sender is not registered and the text is such a keyword, and never
\* "name taken" when the sender is registered.
C2_ResubmitKeepsEntry ==
    [][\A r \in users :
          (Routed /\ RemoveWhitespace(Text) = r.employee_name) =>
              /\ users' = users
              /\ {q \in users' : q.employee_name = r.employee_name} = {r}
              /\ IF IsRegistered(users, Sender) THEN Reply # ReplyNameTaken(Text)
                 ELSE IF IsKeywordText(Text) THEN Reply = ReplyInstructions
                 ELSE Reply = ReplyNameTaken(Text)]_vars

\* C2, witness: U2 was refused the name U1 holds, submitted with a space
C2_Witness ==
    /\ out.op = "webhook"
    /\ Len(out.replies) = 1
    /\ out.replies[1].user_id = "U2"
    /\ out.replies[1].text = TxTaroSpaced
    /\ out.replies[1].reply = ReplyNameTaken(TxTaroSpaced)
    /\ users = {[line_user_id |-> "U1", employee_name |-> TxTaro]}

ConfirmedRows(table, user_id, week_start) ==
    {r \in table : /\ r.user_id = user_id
                   /\ r.week_start = week_start
                   /\ r.status = "confirmed"}

\* the text is routed to the confirmation branch for a registered sender
IsConfirmationText(text) ==
    is_shift_confirmation(text) /\ ~is_schedule_change_request(text)

\* C3: after a confirmation message of a registered user exactly one confirmed
\* row exists for the user and the current week, and when the user had already
\* confirmed this week the reply is "already confirmed" and no row is added.
C3_OneConfirmationPerWeek ==
    [][(Routed /\ IsRegistered(users, Sender) /\ IsConfirmationText(Text)) =>
          LET week == now - (now % TicksPerWeek)
          IN  /\ Cardinality(ConfirmedRows(shift_confirmations', Sender, week)) = 1
              /\ ConfirmedRows(shift_confirmations, Sender, week) # {} =>
                    /\ Reply = ReplyAlreadyConfirmed
                    /\ shift_confirmations' = shift_confirmations]_vars

\* C3, witness: the second confirmation of the week was answered "already
\* confirmed", and one row is stored
C3_Witness ==
    /\ out.op = "webhook"
    /\ Len(out.replies) = 1
    /\ out.replies[1].reply = ReplyAlreadyConfirmed
    /\ IsConfirmationText(out.replies[1].text)
    /\ Cardinality({r \in shift_confirmations :
                       r.user_id = out.replies[1].user_id}) = 1

\* C4, as claimed: after every store_conversation call each user id has at most
\* 20 rows, and the rows removed are the oldest by insertion order: every row
\* removed was inserted before every row of the same user id that is kept.
C4_KeepsNewest ==
    [][/\ \A u \in Users :
             Cardinality({r \in conversations' : r.user_id = u}) <= 20
       /\ \A r \in conversations \ conversations' :
             \A q \in conversations' : q.user_id = r.user_id => q.id > r.id]_vars

\* the POST requests the webhook refuses before it looks at the events
RefusedKinds == {"not_json", "falsy", "no_events"}

\* C5, as claimed: every POST delivery is answered with HTTP 200.
C5_AlwaysAcknowledged ==
    (out.op = "webhook" /\ out.method = "POST") => out.http = 200

\* C5, amended: a POST delivery is answered with HTTP 400 when its content type
\* is not JSON, its JSON body is empty or it has no "events" key, and with
\* HTTP 200 in every other case, whatever fails while it is handled.
C5_AcknowledgedUnlessRefused ==
    (out.op = "webhook" /\ out.method = "POST") =>
        IF out.kind \in RefusedKinds
        THEN out.http = 400 /\ out.status = "error" /\ out.pushes = <<>>
        ELSE out.http = 200

\* C5, witness: a delivery whose event met a database that is down,
\* acknowledged
C5_Witness ==
    /\ out.op = "webhook"
    /\ out.method = "POST"
    /\ out.kind = "events"
    /\ out.http = 200
    /\ Len(out.replies) = 1
    /\ out.replies[1].db = "down"
    /\ out.replies[1].reply = ReplyApology

\* the upload was read into a table
TableRead ==
    /\ out.op = "upload_file"
    /\ out.request.has_file
    /\ out.request.filename \in {FnXlsx, FnXLS}
    /\ out.request.readable

RequiredSet == {"employee_name", "shift_date", "start_time", "end_time"}
RequiredRank(col) ==
    CASE col = "employee_name" -> 1 [] col = "shift_date" -> 2
      [] col = "start_time" -> 3 [] col = "end_time" -> 4 [] OTHER -> 0

\* C6: an upload whose table lacks required columns is answered with an error
\* that names exactly the missing columns, in the order employee_name,
\* shift_date, start_time, end_time, and pushes nothing and reads no Directory.
C6_MissingColumnsNamed ==
    (TableRead /\ ~(RequiredSet \subseteq out.request.df.columns)) =>
        /\ out.status = "error"
        /\ out.data = <<>>
        /\ Head(out.message) = "Missing required columns: "
        /\ LET named == Tail(out.message)
           IN  /\ {named[i] : i \in 1..Len(named)} =
                      RequiredSet \ out.request.df.columns
               /\ \A i, j \in 1..Len(named) :
                      i < j => RequiredRank(named[i]) < RequiredRank(named[j])
        /\ out.pushes = <<>>
        /\ out.directory_reads = 0

\* C6, witness: a table without employee_name and end_time
C6_Witness ==
    /\ TableRead
    /\ out.request.df.columns = {"shift_date", "start_time"}
    /\ out.message = <<"Missing required columns: ", "employee_name", "end_time">>

RowHasNull(row) == \E c \in RequiredSet : row[c] = Null
CompleteRows(rows) == {i \in 1..Len(rows) : ~RowHasNull(rows[i])}

\* C7, as claimed: with all required columns and a null in a required column
\* of some but not all rows, the upload succeeds with a preview of the rows
\* that have none.
C7_RowsWithNullDropped ==
    (/\ TableRead
     /\ RequiredSet \cup {"line_user_id"} \subseteq out.request.df.columns
     /\ CompleteRows(out.request.df.rows) # {}
     /\ CompleteRows(out.request.df.rows) # 1..Len(out.request.df.rows)) =>
        /\ out.status = "success"
        /\ Len(out.data) = Cardinality(CompleteRows(out.request.df.rows))

\* C8, as claimed: an upload with exactly the four required columns and fully
\* populated rows succeeds with one preview record per row.
C8_RequiredColumnsSuffice ==
    (/\ TableRead
     /\ out.request.df.columns = RequiredSet
     /\ out.request.df.rows # <<>>
     /\ CompleteRows(out.request.df.rows) = 1..Len(out.request.df.rows)) =>
        /\ out.status = "success"
        /\ Len(out.data) = Len(out.request.df.rows)

\* C9, as claimed: an unregistered user id that sends a valid name nobody
\* holds gains the one Directory entry (id, name without whitespace), no other
\* entry changes, and the reply confirms the registration.
C9_ValidNameRegisters ==
    [][(/\ Routed
        /\ ~IsRegistered(users, Sender)
        /\ IsValidName(Text)
        /\ ~NameTaken(users, RemoveWhitespace(Text))) =>
          /\ users' = users \cup {[line_user_id |-> Sender,
                                   employee_name |-> RemoveWhitespace(Text)]}
          /\ Reply = ReplyRegistered(RemoveWhitespace(Text))]_vars

\* C9, amended: the same, for a valid name that is not a start-registration
\* keyword in any letter case.
C9_ValidNameRegistersUnlessKeyword ==
    [][(/\ Routed
        /\ ~IsRegistered(users, Sender)
        /\ IsValidName(Text)
        /\ ~IsKeywordText(Text)
        /\ ~NameTaken(users, RemoveWhitespace(Text))) =>
          /\ users' = users \cup {[line_user_id |-> Sender,
                                   employee_name |-> RemoveWhitespace(Text)]}
          /\ Reply = ReplyRegistered(RemoveWhitespace(Text))]_vars

\* C9, witness: U2 registered a name sent with a space, beside U1's entry
C9_Witness ==
    /\ out.op = "webhook"
    /\ Len(out.replies) = 1
    /\ out.replies[1].user_id = "U2"
    /\ out.replies[1].text = TxTaroSpaced
    /\ out.replies[1].reply = ReplyRegistered(TxTaro)
    /\ users = {[line_user_id |-> "U1", employee_name |-> TxOk],
                [line_user_id |-> "U2", employee_name |-> TxTaro]}

\* C10: an unregistered user id that sends a start-registration keyword gets
\* the registration instructions, and the Directory is unchanged.
C10_KeywordNotRegistered ==
    [][(Routed /\ ~IsRegistered(users, Sender) /\ IsKeywordText(Text)) =>
          /\ Reply = ReplyInstructions
          /\ users' = users]_vars

\* C10, witness: the keyword was answered with the instructions while nobody
\* is registered under it
C10_Witness ==
    /\ out.op = "webhook"
    /\ Len(out.replies) = 1
    /\ out.replies[1].text = TxTouroku
    /\ out.replies[1].reply = ReplyInstructions
    /\ ~IsRegistered(users, out.replies[1].user_id)
    /\ ~NameTaken(users, TxTouroku)
\* C11: in every step of webhook messages and dispatch calls, a user id that
\* becomes registered is the sender of a name submission answered with the
\* registration confirmation, its entry carrying the submitted name without
\* whitespace, and every Directory entry that exists stays as it is.
C11_RegisteredOnlyByNameForever ==
    [][/\ users \subseteq users'
       /\ \A e \in users' \ users :
             /\ ~IsRegistered(users, e.line_user_id)
             /\ Routed
             /\ Sender = e.line_user_id
             /\ IsValidName(Text)
             /\ e.employee_name = RemoveWhitespace(Text)
             /\ Reply = ReplyRegistered(e.employee_name)
             /\ users' = users \cup {e}]_vars

\* C11, witness: both user ids are registered and a sheet naming one of them
\* was dispatched from the Directory, which still holds both entries
C11_Witness ==
    /\ Dispatched
    /\ Len(out.pushes) = 1
    /\ users = {[line_user_id |-> "U1", employee_name |-> TxOk],
                [line_user_id |-> "U2", employee_name |-> TxTaro]}

\* the name the Directory holds for a registered user id
NameOf(table, user_id) ==
    (CHOOSE r \in table : r.line_user_id = user_id).employee_name

\* the replies of the confirmation branch
ConfirmationReplies(user_name) ==
    {ReplyConfirmed(user_name), ReplyAlreadyConfirmed, ReplyConfirmError}

\* the reply to the sender is the only push of the step
OnlyReplyPushed ==
    /\ Len(out'.pushes) = 1
    /\ out'.pushes[1].to = Sender
    /\ out'.pushes[1].body = Reply

\* C12: a registered sender's message is classified by the first match among
\* change, confirmation, inquiry, general.  With a change keyword it gets the
\* change acknowledgement and the Ledger is unchanged, whatever else it
\* contains; with a confirmation keyword and no change keyword it gets a reply
\* of the confirmation branch and nothing is pushed to the manager, whatever
\* else it contains; with an inquiry keyword only it gets the inquiry reply;
\* otherwise the general reply.
C12_FirstMatchWins ==
    [][(Routed /\ IsRegistered(users, Sender)) =>
          LET user_name == NameOf(users, Sender)
          IN  IF is_schedule_change_request(Text)
              THEN /\ Reply = ReplyChangeAccepted(user_name, Text)
                   /\ shift_confirmations' = shift_confirmations
              ELSE IF is_shift_confirmation(Text)
              THEN /\ Reply \in ConfirmationReplies(user_name)
                   /\ OnlyReplyPushed
                   /\ \E r \in shift_confirmations' : r.user_id = Sender
              ELSE IF is_shift_inquiry(Text)
              THEN /\ Reply = get_shift_response(user_name)
                   /\ shift_confirmations' = shift_confirmations
              ELSE /\ Reply \in {ReplyAI, FallbackRegister, FallbackChange, FallbackHello}
                   /\ shift_confirmations' = shift_confirmations]_vars

\* C12, witness: a registered sender's message with a confirmation keyword and
\* a change keyword was acknowledged as a change request, the Ledger empty
C12_Witness ==
    /\ out.op = "webhook"
    /\ Len(out.replies) = 1
    /\ IsRegistered(users, out.replies[1].user_id)
    /\ out.replies[1].text = TxKakuninHenkou
    /\ is_shift_confirmation(TxKakuninHenkou)
    /\ out.replies[1].reply =
           ReplyChangeAccepted(NameOf(users, out.replies[1].user_id), TxKakuninHenkou)
    /\ shift_confirmations = {}

\* C13, as claimed: the reply to a registered sender's confirmation is the
\* "confirmation recorded" message when a Ledger row was inserted, and the
\* "already confirmed" message when none was, with or without a manager id.
C13_RecordedOrAlreadyConfirmed ==
    [][(Routed /\ IsRegistered(users, Sender) /\ IsConfirmationText(Text)) =>
          IF shift_confirmations' # shift_confirmations
          THEN Reply = ReplyConfirmed(NameOf(users, Sender))
          ELSE Reply = ReplyAlreadyConfirmed]_vars

\* the pushes of the step that went to the manager id
ManagerPushes ==
    {i \in 1..Len(out'.pushes) : out'.pushes[i].to = managerId}

\* C14, as claimed: a confirmation that inserts a Ledger row while a manager id
\* is configured pushes exactly one notification to the manager id; a repeat
\* confirmation that is rejected pushes none.
C14_OneNoticePerConfirmation ==
    [][(Routed /\ IsRegistered(users, Sender) /\ IsConfirmationText(Text)) =>
          IF shift_confirmations' # shift_confirmations /\ managerId # None
          THEN Cardinality(ManagerPushes) = 1
          ELSE ManagerPushes = {}]_vars

\* C16: without a manager id, a registered sender's change request gets the
\* acknowledgement, and a confirmation not yet made this week inserts its
\* Ledger row and gets the "confirmation recorded" reply; in both cases the
\* reply to the sender is the only push.
C16_NoManagerNoPush ==
    [][(Routed /\ IsRegistered(users, Sender) /\ managerId = None) =>
          LET user_name == NameOf(users, Sender)
              week == WeekStart(now)
          IN  /\ is_schedule_change_request(Text) =>
                    /\ Reply = ReplyChangeAccepted(user_name, Text)
                    /\ OnlyReplyPushed
              /\ (IsConfirmationText(Text)
                    /\ ConfirmedRows(shift_confirmations, Sender, week) = {}) =>
                    /\ Reply = ReplyConfirmed(user_name)
                    /\ OnlyReplyPushed
                    /\ Cardinality(ConfirmedRows(shift_confirmations', Sender, week)) = 1
                    /\ Cardinality(shift_confirmations') =
                           Cardinality(shift_confirmations) + 1]_vars

\* C16, witness: without a manager id a confirmation was recorded and answered
C16_Witness ==
    /\ managerId = None
    /\ out.op = "webhook"
    /\ Len(out.replies) = 1
    /\ IsRegistered(users, out.replies[1].user_id)
    /\ out.replies[1].reply = ReplyConfirmed(NameOf(users, out.replies[1].user_id))
    /\ Len(out.pushes) = 1
    /\ Cardinality(shift_confirmations) = 1

\* C19: a registered sender's message with a change keyword is answered with
\* the acknowledgement; with a manager id configured one notice, carrying the
\* sender's id and name and the raw text, is pushed to it before the reply, and
\* without one only the reply is pushed; the Directory, the Ledger and the
\* Conversation Log of every other user id are unchanged.
C19_ChangeRequestFrame ==
    [][(Routed /\ IsRegistered(users, Sender) /\ is_schedule_change_request(Text)) =>
          LET user_name == NameOf(users, Sender)
          IN  /\ Reply = ReplyChangeAccepted(user_name, Text)
              /\ IF managerId = None THEN OnlyReplyPushed
                 ELSE /\ Len(out'.pushes) = 2
                      /\ out'.pushes[1].to = managerId
                      /\ out'.pushes[1].body = ManagerChangeNotice(Sender, user_name, Text)
                      /\ Contains(out'.pushes[1].body, Text)
                      /\ out'.pushes[2].to = Sender
                      /\ out'.pushes[2].body = Reply
              /\ users' = users
              /\ shift_confirmations' = shift_confirmations
              /\ {r \in conversations' : r.user_id # Sender} =
                     {r \in conversations : r.user_id # Sender}]_vars

\* C19, witness: a change request was pushed to the manager and acknowledged
C19_Witness ==
    /\ managerId = "manager"
    /\ out.op = "webhook"
    /\ Len(out.replies) = 1
    /\ is_schedule_change_request(out.replies[1].text)
    /\ Len(out.pushes) = 2
    /\ out.pushes[1].to = "manager"
    /\ out.pushes[1].result = "sent"
    /\ shift_confirmations = {}

\* a row of a posted sheet lacks a required field: the key is absent, or its
\* value is null or empty
RowLacksField(row) ==
    \E k \in 1..Len(required_columns) :
        row[required_columns[k]] \in {Absent, Null, <<>>}

\* C15, as claimed: a send_messages request with a row that lacks a required
\* field, by an absent key or by a null or empty value, is rejected with an
\* error before the Directory is read, and nothing is pushed.
C15_MissingFieldRejected ==
    (/\ out.op = "send_messages"
     /\ out.request.kind = "data"
     /\ out.db = "ok"
     /\ \E i \in 1..Len(out.request.data) : RowLacksField(out.request.data[i])) =>
        /\ out.status = "error"
        /\ out.directory_reads = 0
        /\ out.pushes = <<>>

\* C20, as claimed: every message routed with the database up adds the inbound
\* text as a "user" row and then the reply as an "assistant" row to the
\* sender's Conversation Log.
C20_EveryBranchLogged ==
    [][Routed =>
          \E u \in conversations' \ conversations,
             a \in conversations' \ conversations :
              /\ u.user_id = Sender /\ u.role = "user" /\ u.message = Text
              /\ a.user_id = Sender /\ a.role = "assistant" /\ a.message = Reply
              /\ u.id < a.id]_vars

\* both concurrent handlers found the sender unregistered, ran their INSERT
\* INTO users and returned
BothInserted ==
    \A p \in Procs : handlers[p].pc = "done" /\ handlers[p].insert # "none"

\* the handlers whose INSERT INTO users succeeded
Winners == {p \in Procs : handlers[p].insert = "ok"}

C18_AtMostOneConfirmedRow ==
    \A u \in Users, w \in 0..MaxClock :
        Cardinality(ConfirmedRows(shift_confirmations, u, w)) <= 1

\* C21: a handler whose routing raised ("database is locked" at its INSERT)
\* goes on to the two log writes with the apology as its reply, whether or not
\* they succeed, and returns the apology, which is pushed to the sender; when
\* both writes succeeded the log holds the text and then the apology.
C21_ApologyOnException ==
    \A p \in Procs :
        handlers[p].insert = "locked" =>
            /\ handlers[p].pc \in {"log_user", "log_assistant", "send", "done"}
            /\ handlers[p].reply = ReplyApology
            /\ handlers[p].pc = "done" =>
                  /\ handlers[p].pushes =
                         <<send_line_message(RaceUser, ReplyApology, TRUE)>>
                  /\ handlers[p].logged \in 0..2
                  /\ handlers[p].logged = 2 =>
                        \E u \in conversations, a \in conversations :
                            /\ u.user_id = RaceUser /\ u.role = "user"
                            /\ u.message = handlers[p].text
                            /\ a.user_id = RaceUser /\ a.role = "assistant"
                            /\ a.message = ReplyApology
                            /\ u.id < a.id

\* C21, witness: a handler met the lock at its INSERT, its first log write
\* failed on the lock too and was swallowed, its second one stored the
\* apology, and it returned
C21_Witness ==
    \E p \in Procs :
        /\ handlers[p].insert = "locked"
        /\ handlers[p].pc = "done"
        /\ handlers[p].logged = 1
        /\ \E a \in conversations : a.role = "assistant" /\ a.message = ReplyApology

\* the request of a send_messages call passes the checks made before the
\* groups are formed, and the database answers
ReachesDispatch(o) ==
    /\ o.op = "send_messages"
    /\ o.request.kind = "data"
    /\ o.request.data # <<>>
    /\ \A i \in 1..Len(o.request.data), k \in 1..Len(required_columns) :
           o.request.data[i][required_columns[k]] # Absent
    /\ o.db = "ok"

\* C22: a send_messages call that reaches the dispatch loop reads the Directory
\* exactly once, whatever the number of groups and however many of them are
\* absent from the Directory; a call rejected before the loop reads it not at
\* all; no send_messages call changes the Directory.
C22_OneDirectoryRead ==
    [][out'.op = "send_messages" =>
          /\ users' = users
          /\ out'.directory_reads = IF ReachesDispatch(out') THEN 1 ELSE 0]_vars

\* C22, witness: a dispatch over two groups, one of them absent from the
\* Directory, that attempted a push
C22_Witness ==
    /\ Dispatched
    /\ Cardinality(RowNames) = 2
    /\ Cardinality(AbsentNames) = 1
    /\ Len(out.pushes) = 1

\* the line of a shift row as the specification words it: the marker alone for
\* an attendance row, the range for every other row
MarkerOrRange(row) ==
    <<"date: ">> \o (IF row.shift_date = Null THEN <<"None">> ELSE row.shift_date)
      \o (IF row.start_time = AttendanceMarker
          THEN <<", time: ">> \o row.start_time
          ELSE <<", ">> \o row.start_time \o <<" - ">> \o row.end_time)
      \o (IF row.place \notin {Null, Absent} THEN <<" ">> \o row.place ELSE <<>>)

RECURSIVE MarkerOrRangeLines(_, _, _)
MarkerOrRangeLines(data, name, i) ==
    IF i > Len(data) THEN <<>>
    ELSE (IF data[i].employee_name = name
          THEN <<"- ">> \o MarkerOrRange(data[i]) \o <<"\n">>
          ELSE <<>>) \o MarkerOrRangeLines(data, name, i + 1)

\* C23, as claimed: in every message send_messages pushes, a row whose
\* start_time is the attendance marker is rendered as the date and the marker
\* only, whatever its end_time, and every other row as the date and the range
\* 'start - end'.
C23_MarkerNeverRange ==
    Dispatched =>
        \A i \in 1..Len(out.pushes) :
            \E name \in RowNames :
                out.pushes[i].body =
                    name \o <<"[san, these shifts are scheduled]">>
                         \o MarkerOrRangeLines(out.request.data, name, 1)
                         \o <<"[thank you]">>

\* the events of a delivery that the loop hands to the router
IsRoutable(event) ==
    event.kind = "text" /\ event.userId # None /\ Strip(event.text) # <<>>

\* C24: after a delivery of a batch of events, the text events that have a user
\* id and a text were routed once each and answered with one push each to their
\* sender, carrying the reply, in batch order, whether or not routing or
\* sending failed for another event of the batch; the other events left no
\* reply and no push, and a batch made of such events alone changed nothing.
C24_EachEventOnceInOrder ==
    [][(out'.op = "webhook" /\ out'.kind = "events") =>
          LET routed == SelectSeq(out'.events, IsRoutable)
          IN  /\ Len(out'.replies) = Len(routed)
              /\ Len(out'.pushes) = Len(routed)
              /\ \A k \in 1..Len(routed) :
                    /\ out'.replies[k].user_id = routed[k].userId
                    /\ out'.replies[k].text = Strip(routed[k].text)
                    /\ out'.pushes[k].to = routed[k].userId
                    /\ out'.pushes[k].body = out'.replies[k].reply
              /\ routed = <<>> =>
                    UNCHANGED <<users, conversations, shift_confirmations,
                                convSeq, confSeq>>]_vars

\* C24, witness: a batch of two text events and the routing of the first one
\* failed, the pushes were not accepted, and the second event was routed and
\* registered its sender
C24_Witness ==
    /\ out.op = "webhook"
    /\ Len(out.events) = 2
    /\ Len(out.replies) = 2
    /\ out.replies[1].db = "down"
    /\ out.replies[1].reply = ReplyApology
    /\ out.replies[2].reply = ReplyRegistered(out.replies[2].text)
    /\ out.pushes[1].result = "failed"
    /\ IsRegistered(users, out.replies[2].user_id)

\* the pushes of the last send_messages call that carry the message of a group
PushesFor(name) ==
    {i \in 1..Len(out.pushes) :
        out.pushes[i].body = MessageBody(out.request.data, name)}

\* C25: after a send_messages call that reaches the dispatch loop, each group
\* was pushed to at most once (once when its name is in the Directory, never
\* when it is absent, and a failed push was not repeated), every push belongs
\* to a group, and the two counters add up to the number of distinct names.
C25_EachGroupOnce ==
    Dispatched =>
        /\ \A name \in RowNames :
              Cardinality(PushesFor(name)) = IF NameTaken(users, name) THEN 1 ELSE 0
        /\ \A i \in 1..Len(out.pushes) : \E name \in RowNames : i \in PushesFor(name)
        /\ out.successful_sends + out.failed_sends = Cardinality(RowNames)

\* C25, witness: two groups, one absent from the Directory and one whose only
\* push failed, both counted as failed
C25_Witness ==
    /\ Dispatched
    /\ Cardinality(RowNames) = 2
    /\ Cardinality(AbsentNames) = 1
    /\ Len(out.pushes) = 1
    /\ out.pushes[1].result = "failed"
    /\ out.failed_sends = 2
    /\ out.successful_sends = 0

\* C26, as claimed: every call of process_user_message adds exactly two rows
\* to the Conversation Log, both of the sender: one "user" row with the inbound
\* text and, after it, one "assistant" row with the returned reply.
C26_ExactlyOneRowEach ==
    [][Routed =>
          LET added == conversations' \ conversations
          IN  /\ \A r \in added : r.user_id = Sender
              /\ Cardinality({r \in added : r.role = "user"}) = 1
              /\ Cardinality({r \in added : r.role = "assistant"}) = 1
              /\ \A u \in added, a \in added :
                    (u.role = "user" /\ a.role = "assistant") =>
                        /\ u.message = Text
                        /\ a.message = Reply
                        /\ u.id < a.id]_vars

====
